---- MODULE Spec2Model ----
(***************************************************************************)
(* A model of the birdwatcher camera appliance.                            *)
(*                                                                         *)
(* The repository holds three entry points that never run together:       *)
(*   app.py + streamer.py  the web application and its streamer thread    *)
(*                          (settings route, motion loop, clip recorder)   *)
(*   av_rec.py             the audio/video handshake recorder              *)
(*   procstreamer.py       the rotating-segment muxer                      *)
(* The variable `program` says which of them a behaviour is a run of; the  *)
(* variables of the other programs keep their initial values.  The web     *)
(* application is followed in three kinds of run: "main" from the call of  *)
(* streamer_main to its return, "streamer" from a started streamer on with *)
(* requests to the settings route, and "app" with the routes alone.  Two   *)
(* more values follow a function on its own: "audio_worker" the process    *)
(* function of av_rec.py, and "raw" the pure function get_raw_sensitivity. *)
(*                                                                         *)
(* Time: `now` is the wall clock read in whole seconds.  time.sleep(0.1)   *)
(* is shorter than the clock's resolution and is a plain yield; sleeps of  *)
(* whole seconds are lower bounds on the clock (a thread may always be     *)
(* scheduled late).                                                        *)
(***************************************************************************)
EXTENDS Integers, Sequences, FiniteSets, TLC

\* ------------------------------------------------------------------ bounds
MaxTime == 3
MaxRecorders == 2
MaxPosts == 1
MaxSegs == 3
LongRun == 998

\* ------------------------------------------------------- program constants
DEFAULT_UI_SENSITIVITY == 80
DEFAULT_DURATION == 10
UiMin == 1
UiMax == 100
PadWidth == 3

\* --------------------------------------------------------------- text, ints
\* Text is a sequence of one-character strings.
DigitChars == <<"0", "1", "2", "3", "4", "5", "6", "7", "8", "9">>

IsDigit(c) == \E i \in 1..10 : DigitChars[i] = c

DigitVal(c) == (CHOOSE i \in 1..10 : DigitChars[i] = c) - 1

RECURSIVE NatToStr(_)
NatToStr(n) ==
    IF n < 10 THEN <<DigitChars[n + 1]>>
    ELSE Append(NatToStr(n \div 10), DigitChars[(n % 10) + 1])

\* json.dump of a Python int: its decimal digits, "-" first when negative.
IntToStr(n) == IF n < 0 THEN <<"-">> \o NatToStr(-n) ELSE NatToStr(n)

RECURSIVE DigitsToNat(_)
DigitsToNat(s) ==
    IF s = <<>> THEN 0
    ELSE 10 * DigitsToNat(SubSeq(s, 1, Len(s) - 1)) + DigitVal(s[Len(s)])

AllDigits(s) == Len(s) >= 1 /\ \A i \in 1..Len(s) : IsDigit(s[i])

\* int(text) and json's number parser accept an optional sign and digits.
IsIntText(s) ==
    /\ Len(s) >= 1
    /\ IF s[1] \in {"-", "+"} THEN AllDigits(Tail(s)) ELSE AllDigits(s)

StrToInt(s) ==
    IF s[1] = "-" THEN 0 - DigitsToNat(Tail(s))
    ELSE IF s[1] = "+" THEN DigitsToNat(Tail(s))
    ELSE DigitsToNat(s)

\* ------------------------------------------------------------------- state
VARIABLES
    program,               \* which entry point this behaviour runs
    now,                   \* time.time(), in whole seconds
    \* app.py: the settings file and the settings route
    settings_file,         \* settings.json on disk
    rt_pc,                 \* position of the POST request being served
    new_sensitivity,       \* settings_route local
    new_duration,          \* settings_route local
    rt_resp,               \* status of the last response of the settings route
    rt_view,               \* (sensitivity, duration) rendered by the last GET
    posts,                 \* POST requests received so far
    \* streamer.py: module-level state and the motion loop's locals
    is_recording,
    motion_detected_time,  \* 0 stands for None
    ml_pc,
    ml_wake,               \* end of the loop's sleep, 0 when it is not asleep
    prev_frame,            \* -1 stands for None
    cur_frame,
    \* streamer.py: one entry per record_clip thread
    rc_pc,
    rc_dur,                \* clip_duration local, 0 once the thread has ended
    rc_enc,                \* the thread's clip_encoder
    rc_aud,                \* the thread's audio_stream
    rc_wake,               \* end of the thread's sleep, 0 when it is not asleep
    rc_exit,               \* exit code ffmpeg_proc.wait() gave the thread, -1: none
    rc_relay,              \* the thread's audio_pipe_thread (pipe_audio_to_ffmpeg)
    \* streamer.py: streamer_main, the state it owns and its surroundings
    sm_pc,
    status,                \* status_dict['streamer']
    running_flag,          \* app.py's app_running_flag (a threading.Event)
    app_running,           \* the module-level name the loops test
    audio_dev,             \* the audio hardware: usb | other | none
    audio_device_index,    \* -1 stands for None
    picam2,                \* none | open | recording | stopped
    pub_stream,            \* streamer_main's audio_stream
    pub_relay,             \* streamer_main's audio_thread (pipe_audio_to_ffmpeg)
    \* an observer of the motion loop (no counterpart in the code)
    last_exceed,           \* clock of the last poll whose mse exceeded the threshold
                           \* while motion is tracked, 0 when none
    \* av_rec.py: main
    av_pc,
    ready_event,
    start_event,
    stop_event,
    camera,                \* idle | recording | stopped
    ffmpeg_process,        \* none | running | exited | interrupted
    av_exc,                \* the exception main ended with, "none" when none
    video_pipe,            \* whether the FIFO exists
    audio_pipe,
    \* av_rec.py: audio_worker, run as the process it is written to be
    aw_pc,
    aw_stream,             \* none | open | closed
    aw_pipe,               \* the worker's end of the audio FIFO: none | open | closed
    aw_reader,             \* whether a process still reads the FIFO
    aw_ready,              \* the three events, as the worker's process holds them
    aw_start,
    aw_stop,
    aw_last,               \* what the last stream.read met: none | data | overflow
    \* procstreamer.py: the segment directories, the writers and the mux loop
    video_dir,             \* sequence indices of the video segments on disk
    audio_dir,
    next_v,                \* the video writer's next sequence index
    next_a,
    mx_pc,
    video_files,           \* the loop's sorted listings (file names)
    audio_files,
    vfile,
    afile,
    mux_rc,                \* exit code of the last ffmpeg mux run, -1: none
    muxed,                 \* passes that printed "Muxed"
    \* an observer of the mux loop (no counterpart in the code)
    consumed,              \* the files mux passes have read: <<stream, name>> pairs
    \* get_raw_sensitivity applied to two sensitivities
    raw_in,
    raw_out                \* <<>> until the function has been applied

appVars == <<settings_file, rt_pc, new_sensitivity, new_duration, rt_resp, rt_view, posts>>
mlVars == <<motion_detected_time, ml_pc, ml_wake, prev_frame, cur_frame, last_exceed>>
rcVars == <<rc_pc, rc_dur, rc_enc, rc_aud, rc_wake, rc_exit, rc_relay>>
mainVars == <<sm_pc, status, running_flag, app_running, audio_dev, audio_device_index,
              picam2, pub_stream, pub_relay>>
streamerVars == <<now, appVars, is_recording, mlVars, rcVars, mainVars>>
avVars == <<av_pc, ready_event, start_event, stop_event, camera, ffmpeg_process,
            av_exc, video_pipe, audio_pipe>>
awVars == <<aw_pc, aw_stream, aw_pipe, aw_reader, aw_ready, aw_start, aw_stop, aw_last>>
mxVars == <<video_dir, audio_dir, next_v, next_a, mx_pc, video_files, audio_files,
            vfile, afile, mux_rc, muxed, consumed>>
rawVars == <<raw_in, raw_out>>
vars == <<program, streamerVars, avVars, awVars, mxVars, rawVars>>
\* what an action of one program leaves alone
notStreamer == <<program, avVars, awVars, mxVars, rawVars>>
notAv == <<program, streamerVars, awVars, mxVars, rawVars>>
notAw == <<program, streamerVars, avVars, mxVars, rawVars>>
notMx == <<program, streamerVars, avVars, awVars, rawVars>>
notRaw == <<program, streamerVars, avVars, awVars, mxVars>>

\* ------------------------------------------------------------ settings file
Missing == [kind |-> "missing", sens |-> <<>>, dur |-> <<>>]

\* A file json.load rejects (JSONDecodeError): empty, truncated, not JSON.
Malformed == [kind |-> "malformed", sens |-> <<>>, dur |-> <<>>]

\* A JSON object; <<>> for a key the object does not hold.
Obj(s, d) == [kind |-> "object", sens |-> s, dur |-> d]

\* json.dump({'sensitivity': s, 'duration': d}, f)
json_dump(s, d) == Obj(IntToStr(s), IntToStr(d))

load_settings_swapped(f) ==
    IF f.kind = "object"
    THEN << IF f.sens = <<>> THEN DEFAULT_DURATION ELSE StrToInt(f.sens),
            IF f.dur = <<>> THEN DEFAULT_UI_SENSITIVITY ELSE StrToInt(f.dur) >>
    ELSE <<DEFAULT_DURATION, DEFAULT_UI_SENSITIVITY>>

\* streamer.load_settings: (ui_sensitivity, duration)
load_settings(f) ==
    IF f.kind = "object"
    THEN << IF f.sens = <<>> THEN DEFAULT_UI_SENSITIVITY ELSE StrToInt(f.sens),
            IF f.dur = <<>> THEN DEFAULT_DURATION ELSE StrToInt(f.dur) >>
    ELSE <<DEFAULT_UI_SENSITIVITY, DEFAULT_DURATION>>

\* app.load_settings: the same code, in app.py
app_load_settings(f) ==
    IF f.kind = "object"
    THEN << IF f.sens = <<>> THEN DEFAULT_UI_SENSITIVITY ELSE StrToInt(f.sens),
            IF f.dur = <<>> THEN DEFAULT_DURATION ELSE StrToInt(f.dur) >>
    ELSE <<DEFAULT_UI_SENSITIVITY, DEFAULT_DURATION>>

get_raw_sensitivity_offby(ui_sensitivity) == 100 - ui_sensitivity

get_raw_sensitivity(ui_sensitivity) == 105 - ui_sensitivity

\* Files that may lie on disk when the application starts.
InitFiles ==
    IF program = "app"
    THEN { Missing, Malformed, Obj(<<>>, <<>>),
           Obj(<<"6", "5">>, <<>>), Obj(<<>>, <<"1", "5">>), Obj(<<"-", "3">>, <<"2">>) }
    ELSE { Missing, Obj(<<>>, <<"1">>) }

\* request.form: a field is present with a text, or absent.
Field(t) == [present |-> TRUE, text |-> t]
NoField == [present |-> FALSE, text |-> <<>>]

SensFields ==
    { Field(<<"6", "5">>), Field(<<"1", "0", "6">>), Field(<<"+", "7">>),
      Field(<<"a">>), Field(<<>>), NoField }
DurFields ==
    { Field(<<"0">>), Field(<<"1", "5">>), Field(<<"-", "1">>),
      Field(<<"1", "-">>), NoField }

\* The forms posted in a run of "app" (the web application on its own), and the
\* fewer ones posted while the streamer thread is followed too.
AppForms == [sensitivity : SensFields, duration : DurFields]
StreamerForms ==
    { [sensitivity |-> Field(<<"1", "0", "6">>), duration |-> Field(<<"1">>)],
      [sensitivity |-> Field(<<"6", "5">>), duration |-> Field(<<"1", "5">>)] }
Forms == IF program = "app" THEN AppForms ELSE StreamerForms

\* The web application's state is written by the routes alone, and the streamer
\* thread only reads the settings file: a run of "app" is a run of the whole
\* application in which the streamer thread is not scheduled.
Web == {"app", "streamer"}

\* The runs that follow the streamer thread: "main" from the call of
\* streamer_main on, with one settings file and no request; "streamer" from a
\* started streamer on (no USB audio device was found, so the live stream has no
\* audio relay, and the camera delivers every frame asked for), with requests
\* to the settings route.
Streamer == {"streamer", "main"}

\* int(request.form[k]) raises KeyError or ValueError
FormOk(form) ==
    /\ form.sensitivity.present /\ IsIntText(form.sensitivity.text)
    /\ form.duration.present /\ IsIntText(form.duration.text)

\* ------------------------------------------------------------ settings route
\* POST /settings, lines 87-90 and 94-95: parse the form
RtPost(form) ==
    /\ program \in Web
    /\ rt_pc = "idle"
    /\ posts < MaxPosts
    /\ posts' = posts + 1
    /\ IF FormOk(form)
       THEN /\ new_sensitivity' = StrToInt(form.sensitivity.text)
            /\ new_duration' = StrToInt(form.duration.text)
            /\ rt_pc' = "open"
            /\ rt_resp' = 0
       ELSE /\ rt_resp' = 400
            /\ UNCHANGED <<new_sensitivity, new_duration, rt_pc>>
    /\ UNCHANGED <<notStreamer, mainVars, now, settings_file, rt_view, is_recording, mlVars, rcVars>>

\* line 91: open(settings_file, 'w') truncates the file
RtOpen ==
    /\ program \in Web
    /\ rt_pc = "open"
    /\ settings_file' = Malformed
    /\ rt_pc' = "dump"
    /\ UNCHANGED <<notStreamer, mainVars, now, new_sensitivity, new_duration, rt_resp, rt_view, posts,
                   is_recording, mlVars, rcVars>>

\* lines 92-93: json.dump, the file is closed (its text reaches the disk), redirect
RtDump ==
    /\ program \in Web
    /\ rt_pc = "dump"
    /\ settings_file' = json_dump(new_sensitivity, new_duration)
    /\ rt_pc' = "idle"
    /\ rt_resp' = 302
    /\ UNCHANGED <<notStreamer, mainVars, now, new_sensitivity, new_duration, rt_view, posts,
                   is_recording, mlVars, rcVars>>

\* GET /settings, lines 97-98
RtGet ==
    /\ program = "app"
    /\ rt_view' = app_load_settings(settings_file)
    /\ UNCHANGED <<notStreamer, mainVars, now, settings_file, rt_pc, new_sensitivity, new_duration,
                   rt_resp, posts, is_recording, mlVars, rcVars>>

\* --------------------------------------------------------------- the clock
Tick ==
    /\ program \in Streamer
    /\ now < MaxTime
    /\ now' = now + 1
    /\ UNCHANGED <<notStreamer, mainVars, appVars, is_recording, mlVars, rcVars>>

\* ------------------------------------------------------------- motion loop
NoDevice == -1
UsbIndex == 1

\* streamer_main has started the live stream on a machine whose only audio input
\* is not a USB device: find_audio_device returned None, the live stream has no
\* audio stream and no relay, and the motion loop is about to run
Started ==
    /\ sm_pc = "loop"
    /\ status = "green"
    /\ running_flag = TRUE
    /\ app_running = "is_set"
    /\ audio_dev = "other"
    /\ audio_device_index = NoDevice
    /\ picam2 = "recording"
    /\ pub_stream = "none"
    /\ pub_relay = "none"

NoTime == 0
NoFrame == -1
PausedSleep == 1

\* Luma frames are one pixel wide: the frame is its luma value.
FrameValues == {0, 50}

\* np.mean(np.abs(current - prev)) of one-pixel frames
Mse(a, b) == IF a >= b THEN a - b ELSE b - a

Recorders == 1..MaxRecorders

\* threads that are not running: never started, returned, or died
Ended == {"none", "done", "dropped", "crashed"}

\* a pipe_audio_to_ffmpeg thread that has not left its loop
Relaying == {"read", "write"}

\* a slot is free when its record_clip thread and that thread's relay have ended
FreeSlots == {t \in Recorders : rc_pc[t] \in Ended /\ rc_relay[t] \notin Relaying}

\* threading.Thread(target=record_clip).start() in the lowest free slot
Spawn ==
    /\ FreeSlots # {}
    /\ LET t == CHOOSE x \in FreeSlots : \A y \in FreeSlots : x <= y
       IN /\ rc_pc' = [rc_pc EXCEPT ![t] = "guard"]
          /\ rc_dur' = [rc_dur EXCEPT ![t] = 0]
          /\ rc_enc' = [rc_enc EXCEPT ![t] = "none"]
          /\ rc_aud' = [rc_aud EXCEPT ![t] = "none"]
          /\ rc_wake' = [rc_wake EXCEPT ![t] = 0]
          /\ rc_exit' = [rc_exit EXCEPT ![t] = -1]
          /\ rc_relay' = [rc_relay EXCEPT ![t] = "none"]

ShouldStart_always(mse, raw_sensitivity, mdt) == mse > raw_sensitivity

\* lines 185-186: a MotionStart
ShouldStart(mse, raw_sensitivity, mdt) == mse > raw_sensitivity /\ mdt = NoTime

\* The truth value Python gives an object in `while app_running:`.  A bool is
\* its own value; a bound method (any object that defines neither __bool__ nor
\* __len__) is true.
Truthy(v) == v # "False"

MlCheck_capturing ==
    /\ program \in Streamer
    /\ ml_pc = "check"
    /\ \E f \in FrameValues : cur_frame' = f
    /\ IF prev_frame = NoFrame
       THEN prev_frame' = cur_frame' /\ ml_pc' = "check"
       ELSE ml_pc' = "eval" /\ UNCHANGED prev_frame
    /\ UNCHANGED <<notStreamer, mainVars, now, appVars, is_recording, motion_detected_time,
                   ml_wake, last_exceed, rcVars>>

\* lines 168-177 and 179, 195-196: the loop test, the pause while recording, the
\* capture of a frame (picam2.capture_array may raise, which ends the loop and
\* reaches streamer_main's except clause), and the first frame kept as the
\* baseline
MlCheck ==
    /\ program \in Streamer
    /\ ml_pc = "check"
    /\ IF ~Truthy(app_running)
       THEN /\ ml_pc' = "exited"
            /\ sm_pc' = "finally"
            /\ UNCHANGED <<prev_frame, cur_frame, ml_wake>>
       ELSE IF is_recording
       THEN /\ ml_pc' = "paused"
            /\ ml_wake' = now + PausedSleep
            /\ UNCHANGED <<prev_frame, cur_frame, sm_pc>>
       ELSE \/ /\ \E f \in FrameValues : cur_frame' = f
               /\ IF prev_frame = NoFrame
                  THEN prev_frame' = cur_frame' /\ ml_pc' = "check"
                  ELSE ml_pc' = "eval" /\ UNCHANGED prev_frame
               /\ UNCHANGED <<ml_wake, sm_pc>>
            \/ /\ program = "main"
               /\ ml_pc' = "exited"
               /\ sm_pc' = "except"
               /\ UNCHANGED <<prev_frame, cur_frame, ml_wake>>
    /\ UNCHANGED <<notStreamer, status, running_flag, app_running, audio_dev,
                   audio_device_index, picam2, pub_stream, pub_relay,
                   now, appVars, is_recording, motion_detected_time,
                   last_exceed, rcVars>>

\* line 170: time.sleep(1) has elapsed
MlWake ==
    /\ program \in Streamer
    /\ ml_pc = "paused"
    /\ now >= ml_wake
    /\ ml_pc' = "check"
    /\ ml_wake' = 0
    /\ UNCHANGED <<notStreamer, mainVars, now, appVars, is_recording, motion_detected_time,
                   prev_frame, cur_frame, last_exceed, rcVars>>

\* lines 180-189: the threshold is read, the difference compared, a MotionStart
\* emitted
MlEval ==
    /\ program \in Streamer
    /\ ml_pc = "eval"
    /\ LET ui_sensitivity == load_settings(settings_file)[1]
           raw_sensitivity == get_raw_sensitivity(ui_sensitivity)
           mse == Mse(cur_frame, prev_frame)
       IN IF mse > raw_sensitivity
          THEN /\ last_exceed' = now
               /\ IF ShouldStart(mse, raw_sensitivity, motion_detected_time)
                  THEN /\ motion_detected_time' = now
                       /\ Spawn
                  ELSE UNCHANGED <<motion_detected_time, rcVars>>
               /\ prev_frame' = cur_frame
               /\ ml_pc' = "check"
          ELSE /\ ml_pc' = "idle"
               /\ UNCHANGED <<motion_detected_time, prev_frame, last_exceed, rcVars>>
    /\ UNCHANGED <<notStreamer, mainVars, now, appVars, is_recording, ml_wake, cur_frame>>

\* lines 190-196: below the threshold, the tracked motion may be cleared
MlIdle ==
    /\ program \in Streamer
    /\ ml_pc = "idle"
    /\ LET clip_duration == load_settings(settings_file)[2]
       IN IF motion_detected_time # NoTime /\ now - motion_detected_time > clip_duration
          THEN motion_detected_time' = NoTime /\ last_exceed' = 0
          ELSE UNCHANGED <<motion_detected_time, last_exceed>>
    /\ prev_frame' = cur_frame
    /\ ml_pc' = "check"
    /\ UNCHANGED <<notStreamer, mainVars, now, appVars, is_recording, ml_wake, cur_frame, rcVars>>

\* -------------------------------------------------------------- record_clip
\* line 86: the guard
RcGuard(t) ==
    /\ program \in Streamer
    /\ rc_pc[t] = "guard"
    /\ rc_pc' = [rc_pc EXCEPT ![t] = IF is_recording THEN "dropped" ELSE "set"]
    /\ UNCHANGED <<notStreamer, mainVars, now, appVars, is_recording, mlVars,
                   rc_dur, rc_enc, rc_aud, rc_wake, rc_exit, rc_relay>>

\* line 88
RcSet(t) ==
    /\ program \in Streamer
    /\ rc_pc[t] = "set"
    /\ is_recording' = TRUE
    /\ rc_pc' = [rc_pc EXCEPT ![t] = "load"]
    /\ UNCHANGED <<notStreamer, mainVars, now, appVars, mlVars,
                   rc_dur, rc_enc, rc_aud, rc_wake, rc_exit, rc_relay>>

\* line 91
RcLoad(t) ==
    /\ program \in Streamer
    /\ rc_pc[t] = "load"
    /\ rc_dur' = [rc_dur EXCEPT ![t] = load_settings(settings_file)[2]]
    /\ rc_pc' = [rc_pc EXCEPT ![t] = "open"]
    /\ UNCHANGED <<notStreamer, mainVars, now, appVars, is_recording, mlVars,
                   rc_enc, rc_aud, rc_wake, rc_exit, rc_relay>>

\* lines 111-119: p.open(input_device_index=audio_device_index) returns an
\* active input stream, or raises and the thread dies.  With index None PyAudio
\* opens the default input device; with no input device at all the call can
\* only raise.
RcOpen(t) ==
    /\ program \in Streamer
    /\ rc_pc[t] = "open"
    /\ \E ok \in BOOLEAN :
         IF ok /\ audio_dev # "none"
         THEN /\ rc_aud' = [rc_aud EXCEPT ![t] = "active"]
              /\ rc_pc' = [rc_pc EXCEPT ![t] = "popen"]
              /\ UNCHANGED rc_dur
         ELSE /\ rc_pc' = [rc_pc EXCEPT ![t] = "crashed"]
              /\ rc_dur' = [rc_dur EXCEPT ![t] = 0]
              /\ UNCHANGED rc_aud
    /\ UNCHANGED <<notStreamer, mainVars, now, appVars, is_recording, mlVars,
                   rc_enc, rc_wake, rc_exit, rc_relay>>

\* lines 122-130: the ffmpeg process is started and the relay thread with it
RcPopen(t) ==
    /\ program \in Streamer
    /\ rc_pc[t] = "popen"
    /\ rc_relay' = [rc_relay EXCEPT ![t] = "read"]
    /\ rc_pc' = [rc_pc EXCEPT ![t] = "start"]
    /\ UNCHANGED <<notStreamer, mainVars, now, appVars, is_recording, mlVars,
                   rc_dur, rc_enc, rc_aud, rc_wake, rc_exit>>

\* lines 133-135: the encoder is started against ffmpeg's stdin, and the thread
\* sleeps; time.sleep raises ValueError on a negative length
RcStart(t) ==
    /\ program \in Streamer
    /\ rc_pc[t] = "start"
    /\ rc_enc' = [rc_enc EXCEPT ![t] = "running"]
    /\ IF rc_dur[t] < 0
       THEN /\ rc_pc' = [rc_pc EXCEPT ![t] = "crashed"]
            /\ rc_dur' = [rc_dur EXCEPT ![t] = 0]
            /\ UNCHANGED rc_wake
       ELSE /\ rc_pc' = [rc_pc EXCEPT ![t] = "sleep"]
            /\ rc_wake' = [rc_wake EXCEPT ![t] = now + rc_dur[t]]
            /\ UNCHANGED rc_dur
    /\ UNCHANGED <<notStreamer, mainVars, now, appVars, is_recording, mlVars,
                   rc_aud, rc_exit, rc_relay>>

\* lines 135-138: the sleep has elapsed, picam2.stop_encoder(clip_encoder)
RcStopEncoder(t) ==
    /\ program \in Streamer
    /\ rc_pc[t] = "sleep"
    /\ now >= rc_wake[t]
    /\ rc_enc' = [rc_enc EXCEPT ![t] = "stopped"]
    /\ rc_pc' = [rc_pc EXCEPT ![t] = "stop_audio"]
    /\ rc_wake' = [rc_wake EXCEPT ![t] = 0]
    /\ UNCHANGED <<notStreamer, mainVars, now, appVars, is_recording, mlVars,
                   rc_dur, rc_aud, rc_exit, rc_relay>>

RcStopAudio_early(t) ==
    /\ program \in Streamer
    /\ rc_pc[t] \in {"sleep", "stop_audio"}
    /\ rc_aud' = [rc_aud EXCEPT ![t] = IF rc_aud[t] = "active" THEN "closed" ELSE @]
    /\ rc_pc' = [rc_pc EXCEPT ![t] = IF @ = "sleep" THEN "sleep" ELSE "finish"]
    /\ rc_aud'[t] # rc_aud[t] \/ rc_pc'[t] # rc_pc[t]
    /\ UNCHANGED <<notStreamer, mainVars, now, appVars, is_recording, mlVars,
                   rc_dur, rc_enc, rc_wake, rc_exit, rc_relay>>

\* lines 141-144: the clip's audio stream is stopped and closed
RcStopAudio(t) ==
    /\ program \in Streamer
    /\ rc_pc[t] = "stop_audio"
    /\ rc_aud' = [rc_aud EXCEPT ![t] = IF rc_aud[t] = "active" THEN "closed" ELSE @]
    /\ rc_pc' = [rc_pc EXCEPT ![t] = "finish"]
    /\ UNCHANGED <<notStreamer, mainVars, now, appVars, is_recording, mlVars,
                   rc_dur, rc_enc, rc_wake, rc_exit, rc_relay>>

\* lines 146-149: ffmpeg's stdin is closed, the process is waited for, and the
\* clip is logged as saved whatever the exit code
RcFinish(t) ==
    /\ program \in Streamer
    /\ rc_pc[t] = "finish"
    /\ \E code \in {0, 1} : rc_exit' = [rc_exit EXCEPT ![t] = code]
    /\ rc_pc' = [rc_pc EXCEPT ![t] = "thumb"]
    /\ UNCHANGED <<notStreamer, mainVars, now, appVars, is_recording, mlVars,
                   rc_dur, rc_enc, rc_aud, rc_wake, rc_relay>>

\* lines 152-161: the thumbnail (a failure is caught) and the guard's release
RcClear(t) ==
    /\ program \in Streamer
    /\ rc_pc[t] = "thumb"
    /\ is_recording' = FALSE
    /\ rc_pc' = [rc_pc EXCEPT ![t] = "done"]
    /\ rc_dur' = [rc_dur EXCEPT ![t] = 0]
    /\ rc_exit' = [rc_exit EXCEPT ![t] = -1]
    /\ UNCHANGED <<notStreamer, mainVars, now, appVars, mlVars, rc_enc, rc_aud, rc_wake,
                   rc_relay>>

\* ------------------------------------------------------ pipe_audio_to_ffmpeg
\* One step of the relay loop (lines 200-211) from position pc, on an input
\* stream in state stream, towards a stdin that is open or not.  "read" is the
\* loop test and audio_stream.read(1024); read is called with PyAudio's default
\* exception_on_overflow=True, so an input overflow raises IOError, as does a
\* stream that is no longer open, and the except clause leaves the loop.
\* "write" is ffmpeg_process.stdin.write(data), which raises ValueError on a
\* closed file, caught by the second except clause.
pipe_audio_to_ffmpeg(pc, stream, stdin_open, overflow) ==
    IF pc = "read"
    THEN IF ~Truthy(app_running) THEN "ended"
         ELSE IF stream # "active" \/ overflow THEN "ended"
         ELSE "write"
    ELSE IF stdin_open THEN "read" ELSE "ended"

\* ffmpeg_proc.stdin of a clip is open from Popen (line 122) to line 146
RcStdinOpen(t) == rc_pc[t] \in {"start", "sleep", "stop_audio", "finish", "crashed"}

\* a step of the relay thread of record_clip thread t
RcRelay(t) ==
    /\ program \in Streamer
    /\ rc_relay[t] \in Relaying
    /\ \E overflow \in BOOLEAN :
         rc_relay' = [rc_relay EXCEPT ![t] =
                         pipe_audio_to_ffmpeg(@, rc_aud[t], RcStdinOpen(t), overflow)]
    /\ UNCHANGED <<notStreamer, mainVars, now, appVars, is_recording, mlVars,
                   rc_pc, rc_dur, rc_enc, rc_aud, rc_wake, rc_exit>>

\* a step of the relay thread of the live stream; hls_output's ffmpeg reads its
\* stdin while the camera is recording
PubRelay ==
    /\ program \in Streamer
    /\ pub_relay \in Relaying
    /\ \E overflow \in BOOLEAN :
         pub_relay' = pipe_audio_to_ffmpeg(pub_relay, pub_stream, picam2 = "recording",
                                           overflow)
    /\ UNCHANGED <<notStreamer, sm_pc, status, running_flag, app_running, audio_dev,
                   audio_device_index, picam2, pub_stream,
                   now, appVars, is_recording, mlVars, rcVars>>

\* ------------------------------------------------------------ streamer_main
\* what a step of streamer_main before or after the motion loop leaves alone
smRest == <<notStreamer, now, appVars, is_recording, rcVars, running_flag, audio_dev,
            pub_relay, motion_detected_time, ml_wake, cur_frame, last_exceed>>

\* lines 227-229: the running flag handed over by app.py is the bound method
\* app_running_flag.is_set (app.py line 194), and the name is bound to it
SmBegin ==
    /\ program = "main"
    /\ sm_pc = "begin"
    /\ app_running' = "is_set"
    /\ status' = "yellow"
    /\ sm_pc' = "find_audio"
    /\ UNCHANGED <<smRest, audio_device_index, picam2, pub_stream, ml_pc, prev_frame>>

\* lines 231-232, before the try block: PyAudio() and the host API query raise
\* when PortAudio cannot be initialised; otherwise the index of the USB device,
\* or None
SmFindAudio ==
    /\ program = "main"
    /\ sm_pc = "find_audio"
    /\ \E ok \in BOOLEAN :
         IF ok
         THEN /\ audio_device_index' = IF audio_dev = "usb" THEN UsbIndex ELSE NoDevice
              /\ sm_pc' = "camera"
         ELSE /\ sm_pc' = "escaped"
              /\ UNCHANGED audio_device_index
    /\ UNCHANGED <<smRest, status, app_running, picam2, pub_stream, ml_pc, prev_frame>>

\* lines 235-259: Picamera2() and its configuration, or an exception
SmCamera ==
    /\ program = "main"
    /\ sm_pc = "camera"
    /\ \E ok \in BOOLEAN :
         IF ok
         THEN picam2' = "open" /\ sm_pc' = "open_audio"
         ELSE sm_pc' = "except" /\ UNCHANGED picam2
    /\ UNCHANGED <<smRest, status, app_running, audio_device_index, pub_stream,
                   ml_pc, prev_frame>>

\* lines 262-272: with a device index the live stream's input stream is opened,
\* or p.open raises
SmOpenAudio ==
    /\ program = "main"
    /\ sm_pc = "open_audio"
    /\ IF audio_device_index = NoDevice
       THEN sm_pc' = "start_recording" /\ UNCHANGED pub_stream
       ELSE \E ok \in BOOLEAN :
              IF ok
              THEN pub_stream' = "active" /\ sm_pc' = "start_recording"
              ELSE sm_pc' = "except" /\ UNCHANGED pub_stream
    /\ UNCHANGED <<smRest, status, app_running, audio_device_index, picam2,
                   ml_pc, prev_frame>>

\* line 274: picam2.start_recording, or an exception
SmStartRecording ==
    /\ program = "main"
    /\ sm_pc = "start_recording"
    /\ \E ok \in BOOLEAN :
         IF ok
         THEN picam2' = "recording" /\ sm_pc' = "relay"
         ELSE sm_pc' = "except" /\ UNCHANGED picam2
    /\ UNCHANGED <<smRest, status, app_running, audio_device_index, pub_stream,
                   ml_pc, prev_frame>>

\* lines 277-288 and 166: the relay thread is started when there is an audio
\* stream, the status turns green, motion_detection_loop is entered
SmGreen ==
    /\ program = "main"
    /\ sm_pc = "relay"
    /\ pub_relay' = IF pub_stream = "active" THEN "read" ELSE pub_relay
    /\ status' = "green"
    /\ prev_frame' = NoFrame
    /\ ml_pc' = "check"
    /\ sm_pc' = "loop"
    /\ UNCHANGED <<notStreamer, now, appVars, is_recording, rcVars, running_flag, audio_dev,
                   motion_detected_time, ml_wake, cur_frame, last_exceed,
                   app_running, audio_device_index, picam2, pub_stream>>

\* an except clause that reports the streamer as starting again
SmExcept_restarting ==
    /\ program \in Streamer
    /\ sm_pc = "except"
    /\ status' = "yellow"
    /\ sm_pc' = "finally"
    /\ UNCHANGED <<smRest, app_running, audio_device_index, picam2, pub_stream,
                   ml_pc, prev_frame>>

\* lines 290-292
SmExcept ==
    /\ program \in Streamer
    /\ sm_pc = "except"
    /\ status' = "red"
    /\ sm_pc' = "finally"
    /\ UNCHANGED <<smRest, app_running, audio_device_index, picam2, pub_stream,
                   ml_pc, prev_frame>>

\* lines 294-297: the live stream's audio stream, when there is an active one,
\* is stopped and closed
SmFinallyAudio ==
    /\ program \in Streamer
    /\ sm_pc = "finally"
    /\ pub_stream' = IF pub_stream = "active" THEN "closed" ELSE pub_stream
    /\ sm_pc' = "finally_camera"
    /\ UNCHANGED <<smRest, status, app_running, audio_device_index, picam2,
                   ml_pc, prev_frame>>

\* lines 298-301: an open camera is stopped, the status is red
SmFinallyCamera ==
    /\ program \in Streamer
    /\ sm_pc = "finally_camera"
    /\ picam2' = IF picam2 = "none" THEN "none" ELSE "stopped"
    /\ status' = "red"
    /\ sm_pc' = "returned"
    /\ UNCHANGED <<smRest, app_running, audio_device_index, pub_stream, ml_pc, prev_frame>>

\* app.py lines 203-205: app.run has returned and the flag is cleared.  The
\* main thread then joins the streamer thread for at most five seconds; what
\* the threads do in that time is what this model follows.
AppShutdown ==
    /\ program = "main"
    /\ running_flag
    /\ running_flag' = FALSE
    /\ UNCHANGED <<notStreamer, now, appVars, is_recording, mlVars, rcVars,
                   sm_pc, status, app_running, audio_dev, audio_device_index,
                   picam2, pub_stream, pub_relay>>

\* the values the variables of a program that is not running keep
IdleStreamer ==
    /\ now = 1
    /\ rt_pc = "idle" /\ new_sensitivity = 0 /\ new_duration = 0
    /\ rt_resp = 0 /\ rt_view = <<0, 0>> /\ posts = 0
    /\ is_recording = FALSE
    /\ motion_detected_time = NoTime
    /\ ml_pc = "check" /\ ml_wake = 0
    /\ prev_frame = NoFrame /\ cur_frame = NoFrame
    /\ rc_pc = [t \in Recorders |-> "none"]
    /\ rc_dur = [t \in Recorders |-> 0]
    /\ rc_enc = [t \in Recorders |-> "none"]
    /\ rc_aud = [t \in Recorders |-> "none"]
    /\ rc_wake = [t \in Recorders |-> 0]
    /\ rc_exit = [t \in Recorders |-> -1]
    /\ rc_relay = [t \in Recorders |-> "none"]
    /\ last_exceed = 0
    /\ Started

IdleAv ==
    /\ av_pc = "setup"
    /\ ready_event = FALSE /\ start_event = FALSE /\ stop_event = FALSE
    /\ camera = "idle" /\ ffmpeg_process = "none"
    /\ av_exc = "none"
    /\ video_pipe = FALSE /\ audio_pipe = FALSE

IdleAw ==
    /\ aw_pc = "open"
    /\ aw_stream = "none" /\ aw_pipe = "none" /\ aw_reader = TRUE
    /\ aw_ready = FALSE /\ aw_start = FALSE /\ aw_stop = FALSE
    /\ aw_last = "none"

IdleMx ==
    /\ video_dir = {} /\ audio_dir = {}
    /\ next_v = 0 /\ next_a = 0
    /\ mx_pc = "list"
    /\ video_files = <<>> /\ audio_files = <<>>
    /\ vfile = <<>> /\ afile = <<>>
    /\ mux_rc = -1 /\ muxed = 0
    /\ consumed = {}

IdleRaw == raw_in = <<0, 0>> /\ raw_out = <<>>

InitStreamer ==
    /\ program = "streamer"
    /\ settings_file \in InitFiles
    /\ IdleStreamer /\ IdleAv /\ IdleAw /\ IdleMx /\ IdleRaw

StreamerNext ==
    \/ Tick
    \/ \E form \in Forms : RtPost(form)
    \/ RtOpen
    \/ RtDump
    \/ RtGet
    \/ MlCheck
    \/ MlWake
    \/ MlEval
    \/ MlIdle
    \/ \E t \in Recorders : RcGuard(t)
    \/ \E t \in Recorders : RcSet(t)
    \/ \E t \in Recorders : RcLoad(t)
    \/ \E t \in Recorders : RcOpen(t)
    \/ \E t \in Recorders : RcPopen(t)
    \/ \E t \in Recorders : RcStart(t)
    \/ \E t \in Recorders : RcStopEncoder(t)
    \/ \E t \in Recorders : RcStopAudio(t)
    \/ \E t \in Recorders : RcFinish(t)
    \/ \E t \in Recorders : RcClear(t)
    \/ \E t \in Recorders : RcRelay(t)
    \/ PubRelay
    \/ SmBegin
    \/ SmFindAudio
    \/ SmCamera
    \/ SmOpenAudio
    \/ SmStartRecording
    \/ SmGreen
    \/ SmExcept
    \/ SmFinallyAudio
    \/ SmFinallyCamera
    \/ AppShutdown

\* app.py has started the streamer thread (lines 192-197): streamer_main is
\* about to run, on a machine with a USB audio device, with another audio input
\* only, or with none
InitMain ==
    /\ program = "main"
    /\ settings_file = Obj(<<>>, <<"1">>)
    /\ now = 1
    /\ rt_pc = "idle" /\ new_sensitivity = 0 /\ new_duration = 0
    /\ rt_resp = 0 /\ rt_view = <<0, 0>> /\ posts = 0
    /\ is_recording = FALSE
    /\ motion_detected_time = NoTime
    /\ ml_pc = "none" /\ ml_wake = 0
    /\ prev_frame = NoFrame /\ cur_frame = NoFrame
    /\ rc_pc = [t \in Recorders |-> "none"]
    /\ rc_dur = [t \in Recorders |-> 0]
    /\ rc_enc = [t \in Recorders |-> "none"]
    /\ rc_aud = [t \in Recorders |-> "none"]
    /\ rc_wake = [t \in Recorders |-> 0]
    /\ rc_exit = [t \in Recorders |-> -1]
    /\ rc_relay = [t \in Recorders |-> "none"]
    /\ last_exceed = 0
    /\ sm_pc = "begin"
    /\ status = "yellow"
    /\ running_flag = TRUE
    /\ app_running = "True"
    /\ audio_dev \in {"usb", "other", "none"}
    /\ audio_device_index = NoDevice
    /\ picam2 = "none"
    /\ pub_stream = "none"
    /\ pub_relay = "none"
    /\ IdleAv /\ IdleAw /\ IdleMx /\ IdleRaw

InitApp ==
    /\ program = "app"
    /\ settings_file \in InitFiles
    /\ IdleStreamer /\ IdleAv /\ IdleAw /\ IdleMx /\ IdleRaw

\* ------------------------------------------------------------ av_rec.main
\* lines 80-84: the camera and the encoder are set up, setup_pipes creates the
\* FIFOs that do not exist yet
AvSetup ==
    /\ program = "av_rec"
    /\ av_pc = "setup"
    /\ video_pipe' = TRUE
    /\ audio_pipe' = TRUE
    /\ av_pc' = "ffmpeg"
    /\ UNCHANGED <<notAv, ready_event, start_event, stop_event, camera, ffmpeg_process, av_exc>>

\* lines 87-95: the three events are created unset, start_ffmpeg_proc
AvStartFfmpeg ==
    /\ program = "av_rec"
    /\ av_pc = "ffmpeg"
    /\ ffmpeg_process' = "running"
    /\ av_pc' = "signal"
    /\ UNCHANGED <<notAv, ready_event, start_event, stop_event, camera, av_exc,
                   video_pipe, audio_pipe>>

\* lines 98-103: the audio process is not started and ready_event is not
\* waited for (both lines are commented out); start_event.set()
AvSignalStart ==
    /\ program = "av_rec"
    /\ av_pc = "signal"
    /\ start_event' = TRUE
    /\ av_pc' = "record"
    /\ UNCHANGED <<notAv, ready_event, stop_event, camera, ffmpeg_process, av_exc,
                   video_pipe, audio_pipe>>

\* line 104: camera.start_recording
AvStartRecording ==
    /\ program = "av_rec"
    /\ av_pc = "record"
    /\ camera' = "recording"
    /\ av_pc' = "sleep"
    /\ UNCHANGED <<notAv, ready_event, start_event, stop_event, ffmpeg_process, av_exc,
                   video_pipe, audio_pipe>>

\* lines 107-115: one round of the keep-alive loop, left when ffmpeg has exited
AvPoll ==
    /\ program = "av_rec"
    /\ av_pc = "sleep"
    /\ ffmpeg_process = "exited"
    /\ av_pc' = "stop_rec"
    /\ UNCHANGED <<notAv, ready_event, start_event, stop_event, camera, ffmpeg_process,
                   av_exc, video_pipe, audio_pipe>>

\* the ffmpeg child exits on its own
AvFfmpegDies ==
    /\ program = "av_rec"
    /\ ffmpeg_process = "running"
    /\ ffmpeg_process' = "exited"
    /\ UNCHANGED <<notAv, av_pc, ready_event, start_event, stop_event, camera, av_exc,
                   video_pipe, audio_pipe>>

\* Ctrl-C: caught inside the try block (lines 106-118), fatal before it
AvKeyboardInterrupt ==
    /\ program = "av_rec"
    /\ av_pc \in {"setup", "ffmpeg", "signal", "record", "sleep"}
    /\ IF av_pc = "sleep"
       THEN av_pc' = "stop_rec" /\ UNCHANGED av_exc
       ELSE av_pc' = "ended" /\ av_exc' = "KeyboardInterrupt"
    /\ UNCHANGED <<notAv, ready_event, start_event, stop_event, camera, ffmpeg_process,
                   video_pipe, audio_pipe>>

\* line 121: camera.stop_recording()
AvStopRecording ==
    /\ program = "av_rec"
    /\ av_pc = "stop_rec"
    /\ camera' = "stopped"
    /\ av_pc' = "stop_evt"
    /\ UNCHANGED <<notAv, ready_event, start_event, stop_event, ffmpeg_process, av_exc,
                   video_pipe, audio_pipe>>

\* line 123: stop_event.set()
AvSignalStop ==
    /\ program = "av_rec"
    /\ av_pc = "stop_evt"
    /\ stop_event' = TRUE
    /\ av_pc' = "join"
    /\ UNCHANGED <<notAv, ready_event, start_event, camera, ffmpeg_process, av_exc,
                   video_pipe, audio_pipe>>

\* line 124: audio_process is bound nowhere (line 90 is commented out), so the
\* join raises NameError and the rest of the finally block (lines 127-133:
\* ffmpeg interrupted and waited for, the FIFOs removed) is not run
AvJoin ==
    /\ program = "av_rec"
    /\ av_pc = "join"
    /\ av_exc' = "NameError"
    /\ av_pc' = "ended"
    /\ UNCHANGED <<notAv, ready_event, start_event, stop_event, camera, ffmpeg_process,
                   video_pipe, audio_pipe>>

AvNext ==
    \/ AvSetup
    \/ AvStartFfmpeg
    \/ AvSignalStart
    \/ AvStartRecording
    \/ AvPoll
    \/ AvFfmpegDies
    \/ AvKeyboardInterrupt
    \/ AvStopRecording
    \/ AvSignalStop
    \/ AvJoin

\* FIFOs left by an earlier run (main never removes them) may exist already
InitAv ==
    /\ program = "av_rec"
    /\ video_pipe \in BOOLEAN /\ audio_pipe \in BOOLEAN
    /\ av_pc = "setup"
    /\ ready_event = FALSE /\ start_event = FALSE /\ stop_event = FALSE
    /\ camera = "idle" /\ ffmpeg_process = "none"
    /\ av_exc = "none"
    /\ settings_file = Missing
    /\ IdleStreamer /\ IdleAw /\ IdleMx /\ IdleRaw

\* -------------------------------------------------------- av_rec.audio_worker
\* The function is written to run as a process of its own beside main; it is
\* followed here on its own, with the parent's part (the start and stop events,
\* the reader of the FIFO) played by the surroundings.

\* lines 42-54: the FIFO is opened for writing, PyAudio is set up and the input
\* stream opened; p.open may raise, before the try block
AwOpen ==
    /\ program = "audio_worker"
    /\ aw_pc = "open"
    /\ aw_pipe' = "open"
    /\ \E ok \in BOOLEAN :
         IF ok
         THEN aw_stream' = "open" /\ aw_pc' = "ready"
         ELSE aw_pc' = "died" /\ UNCHANGED aw_stream
    /\ UNCHANGED <<notAw, aw_reader, aw_ready, aw_start, aw_stop, aw_last>>

\* line 56
AwReady ==
    /\ program = "audio_worker"
    /\ aw_pc = "ready"
    /\ aw_ready' = TRUE
    /\ aw_pc' = "wait"
    /\ UNCHANGED <<notAw, aw_stream, aw_pipe, aw_reader, aw_start, aw_stop, aw_last>>

\* lines 57-58: start_event.wait() returns once the event is set
AwStart ==
    /\ program = "audio_worker"
    /\ aw_pc = "wait"
    /\ aw_start
    /\ aw_pc' = "loop"
    /\ UNCHANGED <<notAw, aw_stream, aw_pipe, aw_reader, aw_ready, aw_start, aw_stop, aw_last>>

\* lines 61-71: one round of the loop.  stream.read is called with
\* exception_on_overflow=False, so an overflow still returns a chunk; any other
\* failure of the read is caught at line 70; a write to a FIFO nobody reads
\* raises BrokenPipeError and leaves the loop
AwLoop ==
    /\ program = "audio_worker"
    /\ aw_pc = "loop"
    /\ IF aw_stop
       THEN aw_pc' = "finally" /\ UNCHANGED aw_last
       ELSE \/ /\ \E met \in {"data", "overflow"} : aw_last' = met
               /\ aw_pc' = IF aw_reader THEN "loop" ELSE "finally"
            \/ /\ aw_last' = "error"
               /\ aw_pc' = "finally"
    /\ UNCHANGED <<notAw, aw_stream, aw_pipe, aw_reader, aw_ready, aw_start, aw_stop>>

\* an end of the worker that closes the FIFO only
AwFinally_leaky ==
    /\ program = "audio_worker"
    /\ aw_pc = "finally"
    /\ aw_pipe' = "closed"
    /\ aw_pc' = "done"
    /\ UNCHANGED <<notAw, aw_stream, aw_reader, aw_ready, aw_start, aw_stop, aw_last>>

\* lines 72-76
AwFinally ==
    /\ program = "audio_worker"
    /\ aw_pc = "finally"
    /\ aw_stream' = "closed"
    /\ aw_pipe' = "closed"
    /\ aw_pc' = "done"
    /\ UNCHANGED <<notAw, aw_reader, aw_ready, aw_start, aw_stop, aw_last>>

\* the parent sets start_event or stop_event
AwParentSets ==
    /\ program = "audio_worker"
    /\ \/ ~aw_start /\ aw_start' = TRUE /\ UNCHANGED aw_stop
       \/ ~aw_stop /\ aw_stop' = TRUE /\ UNCHANGED aw_start
    /\ UNCHANGED <<notAw, aw_pc, aw_stream, aw_pipe, aw_reader, aw_ready, aw_last>>

\* the process that reads the FIFO (ffmpeg) goes away
AwReaderGone ==
    /\ program = "audio_worker"
    /\ aw_reader
    /\ aw_reader' = FALSE
    /\ UNCHANGED <<notAw, aw_pc, aw_stream, aw_pipe, aw_ready, aw_start, aw_stop, aw_last>>

AwNext ==
    \/ AwOpen
    \/ AwReady
    \/ AwStart
    \/ AwLoop
    \/ AwFinally
    \/ AwParentSets
    \/ AwReaderGone

InitAw ==
    /\ program = "audio_worker"
    /\ settings_file = Missing
    /\ IdleStreamer /\ IdleAv /\ IdleAw /\ IdleMx /\ IdleRaw

\* ------------------------------------------------- procstreamer: file names
\* "%03d": at least PadWidth digits, zero-padded
RECURSIVE ZeroPad(_)
ZeroPad(s) == IF Len(s) >= PadWidth THEN s ELSE ZeroPad(<<"0">> \o s)

\* A segment's file name is "<dir>/<prefix>%03d.<ext>"; the directory, the
\* prefix and the extension are the same for all files of a listing, so a
\* name is kept as its digits and the dot that follows them.
SegName(n) == ZeroPad(NatToStr(n)) \o <<".">>

\* the code point order of the characters of a name: "." is below the digits
CharRank(c) == IF c = "." THEN 0 ELSE DigitVal(c) + 1

\* Python's str order
RECURSIVE StrLess(_, _)
StrLess(a, b) ==
    IF b = <<>> THEN FALSE
    ELSE IF a = <<>> THEN TRUE
    ELSE IF CharRank(Head(a)) # CharRank(Head(b)) THEN CharRank(Head(a)) < CharRank(Head(b))
    ELSE StrLess(Tail(a), Tail(b))

RECURSIVE sorted_reversed(_)
sorted_reversed(S) ==
    IF S = {} THEN <<>>
    ELSE LET m == CHOOSE x \in S : \A y \in S : x = y \/ StrLess(y, x)
         IN <<m>> \o sorted_reversed(S \ {m})

\* sorted(names), ascending
RECURSIVE sorted(_)
sorted(S) ==
    IF S = {} THEN <<>>
    ELSE LET m == CHOOSE x \in S : \A y \in S : x = y \/ StrLess(x, y)
         IN <<m>> \o sorted(S \ {m})

\* glob.glob over a segment directory
glob(dir) == {SegName(n) : n \in dir}

\* a removal that leaves the file in place
remove_kept(dir, name) == dir

\* os.remove(name)
remove(dir, name) == {n \in dir : SegName(n) # name}

\* the sequence index a run starts its writers at
Base(n) == IF n >= LongRun THEN LongRun ELSE 0

\* --------------------------------------------- procstreamer: rotating writers
\* lines 34-45: the video writer starts its next segment file
WriteVideoSegment ==
    /\ program = "procstreamer"
    /\ mx_pc # "stopped"
    /\ next_v - Base(next_v) < MaxSegs
    /\ video_dir' = video_dir \cup {next_v}
    /\ next_v' = next_v + 1
    /\ UNCHANGED <<notMx, audio_dir, next_a, mx_pc, video_files, audio_files,
                   vfile, afile, mux_rc, muxed, consumed>>

\* lines 49-59: the audio writer starts its next segment file
WriteAudioSegment ==
    /\ program = "procstreamer"
    /\ mx_pc # "stopped"
    /\ next_a - Base(next_a) < MaxSegs
    /\ audio_dir' = audio_dir \cup {next_a}
    /\ next_a' = next_a + 1
    /\ UNCHANGED <<notMx, video_dir, next_v, mx_pc, video_files, audio_files,
                   vfile, afile, mux_rc, muxed, consumed>>

\* --------------------------------------------------- procstreamer: mux loop
\* line 67
MxListVideo ==
    /\ program = "procstreamer"
    /\ mx_pc = "list"
    /\ video_files' = sorted(glob(video_dir))
    /\ mx_pc' = "list_audio"
    /\ UNCHANGED <<notMx, video_dir, audio_dir, next_v, next_a, audio_files,
                   vfile, afile, mux_rc, muxed, consumed>>

\* line 74
MuxReady(vf, af) == Len(vf) >= 1 /\ Len(af) > 1

\* lines 68-78 and 101-105: the audio listing, the test, the pair chosen; with no
\* pair the loop sleeps and lists again
MxListAudio ==
    /\ program = "procstreamer"
    /\ mx_pc = "list_audio"
    /\ audio_files' = sorted(glob(audio_dir))
    /\ IF MuxReady(video_files, audio_files')
       THEN /\ vfile' = video_files[1]
            /\ afile' = audio_files'[1]
            /\ mx_pc' = "mux"
       ELSE /\ mx_pc' = "list"
            /\ UNCHANGED <<vfile, afile>>
    /\ UNCHANGED <<notMx, video_dir, audio_dir, next_v, next_a, video_files, mux_rc, muxed, consumed>>

\* lines 82-93: subprocess.run (no check=True: the exit code is not looked at),
\* "Muxed" is printed
MxRunFfmpeg ==
    /\ program = "procstreamer"
    /\ mx_pc = "mux"
    /\ \E code \in {0, 1} : mux_rc' = code
    /\ muxed' = muxed + 1
    /\ consumed' = consumed \cup {<<"video", vfile>>, <<"audio", afile>>}
    /\ mx_pc' = "rm_video"
    /\ UNCHANGED <<notMx, video_dir, audio_dir, next_v, next_a, video_files, audio_files,
                   vfile, afile>>

\* line 97
MxRemoveVideo ==
    /\ program = "procstreamer"
    /\ mx_pc = "rm_video"
    /\ video_dir' = remove(video_dir, video_files[1])
    /\ mx_pc' = "rm_audio"
    /\ UNCHANGED <<notMx, audio_dir, next_v, next_a, video_files, audio_files,
                   vfile, afile, mux_rc, muxed, consumed>>

\* lines 98 and 105
MxRemoveAudio ==
    /\ program = "procstreamer"
    /\ mx_pc = "rm_audio"
    /\ audio_dir' = remove(audio_dir, audio_files[1])
    /\ mx_pc' = "list"
    /\ UNCHANGED <<notMx, video_dir, next_v, next_a, video_files, audio_files,
                   vfile, afile, mux_rc, muxed, consumed>>

\* lines 107-114: Ctrl-C ends the loop and the writers are terminated
MxKeyboardInterrupt ==
    /\ program = "procstreamer"
    /\ mx_pc # "stopped"
    /\ mx_pc' = "stopped"
    /\ UNCHANGED <<notMx, video_dir, audio_dir, next_v, next_a, video_files, audio_files,
                   vfile, afile, mux_rc, muxed, consumed>>

MxNext ==
    \/ WriteVideoSegment
    \/ WriteAudioSegment
    \/ MxListVideo
    \/ MxListAudio
    \/ MxRunFfmpeg
    \/ MxRemoveVideo
    \/ MxRemoveAudio
    \/ MxKeyboardInterrupt

\* A fresh start, or the state of a long run whose muxer has kept up: segment
\* LongRun - 1 of each stream still on disk, the writers about to start LongRun.
InitMx ==
    /\ program = "procstreamer"
    /\ \/ video_dir = {} /\ audio_dir = {} /\ next_v = 0 /\ next_a = 0
       \/ /\ video_dir = {LongRun - 1} /\ audio_dir = {LongRun - 1}
          /\ next_v = LongRun /\ next_a = LongRun
    /\ mx_pc = "list"
    /\ video_files = <<>> /\ audio_files = <<>>
    /\ vfile = <<>> /\ afile = <<>>
    /\ mux_rc = -1 /\ muxed = 0
    /\ consumed = {}
    /\ settings_file = Missing
    /\ IdleStreamer /\ IdleAv /\ IdleAw /\ IdleRaw

\* ------------------------------------------------------ get_raw_sensitivity
UiValues == UiMin..UiMax

RawApply ==
    /\ program = "raw"
    /\ raw_out = <<>>
    /\ raw_out' = <<get_raw_sensitivity(raw_in[1]), get_raw_sensitivity(raw_in[2])>>
    /\ UNCHANGED <<notRaw, raw_in>>

InitRaw ==
    /\ program = "raw"
    /\ raw_in \in UiValues \X UiValues
    /\ raw_out = <<>>
    /\ settings_file = Missing
    /\ IdleStreamer /\ IdleAv /\ IdleAw /\ IdleMx

\* ------------------------------------------------------------ specification
Init == InitStreamer \/ InitMain \/ InitApp \/ InitAv \/ InitAw \/ InitMx \/ InitRaw

Next == StreamerNext \/ AvNext \/ AwNext \/ MxNext \/ RawApply

Spec == Init /\ [][Next]_vars

\* ------------------------------------------------------------------- claims

\* record_clip threads that have taken the guard (line 88 done) and have not
\* returned or died
InFlight == {t \in Recorders : rc_pc[t] \in {"load", "open", "popen", "start", "sleep",
                                             "stop_audio", "finish", "thumb"}}

\* C1: at most one execution of record_clip is past the is_recording guard
\* (recording or finalizing) at any time, under every interleaving of the
\* motion loop and its recorder threads.
C1_SingleRecorder == Cardinality(InFlight) <= 1

\* C2: in av_rec.main, start_event is set only in a state where ready_event
\* is already set.
C2_StartAfterReady == start_event => ready_event

\* C3: the audio side is stopped only after the video side has stopped:
\* stop_event is set only once camera.stop_recording has returned, and a
\* clip's audio stream is closed only once its encoder has been stopped.
C3_VideoStopsFirst ==
    /\ stop_event => camera = "stopped"
    /\ \A t \in Recorders : rc_aud[t] = "closed" => rc_enc[t] = "stopped"

C3_Witness ==
    \E t \in Recorders : rc_pc[t] = "finish" /\ rc_aud[t] = "closed" /\ rc_enc[t] = "stopped"

\* the threshold the poll under evaluation compares with, from the file as it is
PollExceeds ==
    Mse(cur_frame, prev_frame) > 105 - load_settings(settings_file)[1]

\* C4: an exceeding poll emits a MotionStart (motion_detected_time set, one
\* record_clip thread started) exactly when no motion is tracked; no MotionStart
\* is emitted on any poll while motion_detected_time is set, so a run of
\* exceeding polls emits one.
C4_OneMotionStart ==
    [][LET started == {t \in Recorders : rc_pc[t] \in Ended /\ rc_pc'[t] = "guard"}
           polled == ml_pc = "eval" /\ ml_pc' # "eval"
       IN /\ started # {} =>
                /\ Cardinality(started) = 1
                /\ polled /\ PollExceeds
                /\ motion_detected_time = NoTime
                /\ motion_detected_time' = now
          /\ (polled /\ PollExceeds /\ motion_detected_time # NoTime) =>
                /\ started = {}
                /\ motion_detected_time' = motion_detected_time
          /\ (polled /\ PollExceeds /\ motion_detected_time = NoTime) =>
                /\ Cardinality(started) = 1
                /\ motion_detected_time' # NoTime]_vars

\* a MotionStart has been emitted, its thread is alive, and the next poll
\* exceeds the threshold again
C4_Witness ==
    /\ motion_detected_time # NoTime
    /\ ml_pc = "eval" /\ PollExceeds
    /\ \E t \in Recorders : rc_pc[t] \notin Ended

\* C5: tracked motion is cleared only after the difference has stayed below
\* the threshold for at least the clip duration: when motion_detected_time is
\* cleared, no poll has exceeded the threshold for clip_duration seconds.
C5_ClearedAfterQuiet ==
    [][(motion_detected_time # NoTime /\ motion_detected_time' = NoTime)
         => now - last_exceed >= load_settings(settings_file)[2]]_vars

\* C6: a poll of two identical frames emits no MotionStart, whatever settings
\* are stored.
C6_NoStartOnIdenticalFrames ==
    [][(motion_detected_time = NoTime /\ motion_detected_time' # NoTime)
         => cur_frame # prev_frame]_vars

\* C7: for v in 1..100, get_raw_sensitivity(v) = 105 - v; 100 gives 5, 1 gives
\* 104, and the result is strictly decreasing in v.
C7_RawSensitivity ==
    raw_out # <<>> =>
        /\ raw_out[1] = 105 - raw_in[1]
        /\ raw_out[2] = 105 - raw_in[2]
        /\ (raw_in[1] = 100 => raw_out[1] = 5)
        /\ (raw_in[2] = 1 => raw_out[2] = 104)
        /\ (raw_in[1] < raw_in[2] => raw_out[1] > raw_out[2])

C7_Witness == raw_in = <<100, 1>> /\ raw_out = <<5, 104>>

Elems(seq) == {seq[i] : i \in 1..Len(seq)}

\* C8: a mux pass is started only with at least one video segment and more
\* than one audio segment listed, on the smallest video name and the smallest
\* audio name of the listing.
C8_MuxPair ==
    mx_pc = "mux" =>
        /\ Len(video_files) >= 1
        /\ Len(audio_files) > 1
        /\ vfile \in Elems(video_files)
        /\ afile \in Elems(audio_files)
        /\ \A f \in Elems(video_files) : ~StrLess(f, vfile)
        /\ \A f \in Elems(audio_files) : ~StrLess(f, afile)

C8_Witness == mx_pc = "mux" /\ Len(video_files) >= 2 /\ Len(audio_files) >= 2

\* C9: the two inputs of a pass are removed only after the muxing tool has
\* finished that pass successfully; a failed run is not treated as a mux.
C9_RemovedOnlyAfterSuccess ==
    (vfile # <<>> /\ (vfile \notin glob(video_dir) \/ afile \notin glob(audio_dir)))
        => mux_rc = 0

LoopTestStep ==
    /\ ml_pc = "check"
    /\ ml_pc' # ml_pc \/ prev_frame' # prev_frame \/ cur_frame' # cur_frame

\* C11: once the running flag is cleared, the motion loop leaves its loop at
\* its next loop test, and so does every audio relay loop (the live stream's and
\* each clip's), so that streamer_main goes on to its finally block.
C11_CooperativeShutdown ==
    [][~running_flag =>
         /\ LoopTestStep => (ml_pc' = "exited" /\ sm_pc' = "finally")
         /\ (pub_relay = "read" /\ pub_relay' # pub_relay) => pub_relay' = "ended"
         /\ \A t \in Recorders :
               (rc_relay[t] = "read" /\ rc_relay'[t] # rc_relay[t]) => rc_relay'[t] = "ended"]_vars

\* C12: a recording that has taken the guard releases it: is_recording is true
\* only while some record_clip thread past line 88 is still on its way to
\* line 161, also after a step of the recording has failed.
C12_GuardReleased == is_recording => InFlight # {}

\* C13: with no audio input device (find_audio_device returned None and nothing
\* can be opened) a motion-triggered record_clip does not fail: no recorder
\* thread dies.
C13_VideoOnlyClip ==
    (audio_dev = "none" /\ audio_device_index = NoDevice) =>
        \A t \in Recorders : rc_pc[t] # "crashed"

\* C14: after a failure of the camera or of the audio device during startup,
\* streamer_main has returned with the status red; no exception escapes it and
\* the status is left neither yellow nor green.
C14_StartupFailureRed ==
    /\ sm_pc # "escaped"
    /\ sm_pc = "returned" => status = "red"

\* C15: an input overflow on a read ends no audio relay loop: a pass of
\* pipe_audio_to_ffmpeg that reads from an active stream while the loop test
\* holds goes on to its write, and audio_worker stays in its loop after a read
\* that met an overflow.
C15_OverflowTolerated ==
    [][/\ (Truthy(app_running) /\ pub_relay = "read" /\ pub_stream = "active"
            /\ pub_relay' # pub_relay) => pub_relay' = "write"
       /\ \A t \in Recorders :
             (Truthy(app_running) /\ rc_relay[t] = "read" /\ rc_aud[t] = "active"
              /\ rc_relay'[t] # rc_relay[t]) => rc_relay'[t] = "write"
       /\ (aw_pc = "loop" /\ ~aw_stop /\ aw_reader /\ aw_last' = "overflow")
             => aw_pc' = "loop"]_vars

\* the smallest sequence index of a segment directory
MinIndex(dir) == CHOOSE n \in dir : \A m \in dir : n <= m

\* C16: each mux pass takes, for each stream, the segment with the smallest
\* sequence index on disk (the one the writer created first), also once the
\* index has outgrown the zero-padded width of the name.
C16_FifoPerStream ==
    mx_pc = "mux" =>
        /\ vfile = SegName(MinIndex(video_dir))
        /\ afile = SegName(MinIndex(audio_dir))

\* C17: an iteration of the motion loop that finds is_recording set captures
\* no frame, emits nothing and leaves motion_detected_time and prev_frame as
\* they are; it only sleeps.
C17_PausedWhileRecording ==
    [][(LoopTestStep /\ Truthy(app_running) /\ is_recording) =>
         /\ ml_pc' = "paused"
         /\ cur_frame' = cur_frame
         /\ prev_frame' = prev_frame
         /\ motion_detected_time' = motion_detected_time
         /\ rc_pc' = rc_pc]_vars

\* the loop is asleep after a test that found a recording in progress, with a
\* baseline frame and a tracked motion to leave alone
C17_Witness ==
    /\ ml_pc = "paused" /\ is_recording
    /\ prev_frame # NoFrame /\ motion_detected_time # NoTime

\* C18: the live stream's relay and a clip recorder never both hold an open
\* input stream on the audio device.
C18_AudioDeviceSingleOwner ==
    ~(/\ audio_device_index # NoDevice
      /\ pub_stream = "active"
      /\ \E t \in Recorders : rc_aud[t] = "active")

\* C19: a clip whose ffmpeg process exited with a non-zero code is not
\* reported as saved: a record_clip thread that has logged "Clip saved"
\* (line 149) holds exit code 0.
C19_FailedClipNotSaved ==
    \A t \in Recorders : rc_pc[t] = "thumb" => rc_exit[t] = 0

\* C20: a clip's audio relay writes a chunk to the ffmpeg process only once the
\* clip's video encoder has been started against that process.
C20_SharedStartPoint ==
    [][\A t \in Recorders :
         (rc_relay[t] = "write" /\ rc_relay'[t] = "read") => rc_enc[t] # "none"]_vars

\* C21: a segment file is read by at most one mux pass: the pair a pass is
\* about to hand to ffmpeg holds no file an earlier pass has read, and at the
\* next listing the files read so far are gone from their directories.
C21_ConsumedOnce ==
    /\ mx_pc = "mux" =>
         /\ <<"video", vfile>> \notin consumed
         /\ <<"audio", afile>> \notin consumed
    /\ mx_pc \in {"list", "list_audio"} =>
         \A c \in consumed :
             /\ c[1] = "video" => c[2] \notin glob(video_dir)
             /\ c[1] = "audio" => c[2] \notin glob(audio_dir)

\* a second pass is about to run on a pair of files that the first pass, whose
\* inputs are gone, has not read
C21_Witness ==
    /\ mx_pc = "mux" /\ muxed >= 1
    /\ consumed # {}
    /\ <<"video", vfile>> \notin consumed
    /\ <<"audio", afile>> \notin consumed

\* C22: once audio_worker has opened the device stream, the worker is either
\* still on its way (signalling, waiting, in the loop, in the finally block) or
\* it has returned with the stream stopped and closed; it never ends with the
\* stream open, and nothing (a broken pipe included) is raised out of it.
C22_StreamClosedOnExit ==
    /\ aw_stream = "open" => aw_pc \in {"ready", "wait", "loop", "finally"}
    /\ aw_pc = "done" => aw_stream = "closed"
    /\ aw_pc = "died" => aw_stream = "none"

\* the worker has returned after a write met a FIFO without a reader: no stop
\* was signalled and the last read gave a chunk
C22_Witness ==
    /\ aw_pc = "done" /\ aw_stream = "closed"
    /\ ~aw_reader /\ ~aw_stop /\ aw_last \in {"data", "overflow"}

\* C23: a load_settings call that runs while the settings route writes the file
\* returns the pair stored before the write or the pair being stored: no step
\* of the program changes what load_settings returns to anything but the pair
\* the route is storing.
C23_LoadSeesOldOrNew ==
    [][load_settings(settings_file') \in
         {load_settings(settings_file), <<new_sensitivity', new_duration'>>}]_vars

\* C24: the threshold a poll compares the frame difference with (lines
\* 180-185) is one of 5..104, whatever the settings route has stored.
C24_ThresholdInRange ==
    ml_pc = "eval" =>
        get_raw_sensitivity(load_settings(settings_file)[1]) \in 5..104

\* C25: within a run of streamer_main the status only moves forward, yellow to
\* green to red, possibly skipping green: it turns green only with the camera
\* recording, once red it stays red, from green it goes nowhere but to red, and
\* it is red whenever streamer_main has returned.
C25_StatusForward ==
    /\ [](sm_pc = "returned" => status = "red")
    /\ [](status = "green" => picam2 \in {"recording", "stopped"})
    /\ [][/\ status = "red" => status' = "red"
          /\ status = "green" => status' \in {"green", "red"}
          /\ (status # "green" /\ status' = "green") =>
                (status = "yellow" /\ picam2 = "recording")]_vars

\* streamer_main has returned with the status red after its motion loop, which
\* is entered with the status green, was ended by a failed capture
C25_Witness ==
    /\ program = "main"
    /\ sm_pc = "returned" /\ status = "red"
    /\ ml_pc = "exited" /\ picam2 = "stopped"
====
